---- MODULE Spec2Model ----
(***************************************************************************)
(* Model of mysqldump_to_csv.py: a single-pass converter that reads a SQL  *)
(* dump line by line, accumulates INSERT INTO statements in a buffer,      *)
(* extracts a fixed list of positional values from every row-group and     *)
(* writes them as CSV rows into files rotated by row count.                *)
(*                                                                         *)
(* Text is modelled as TLA+ strings; the str and re operations the script  *)
(* uses are operators that compute what Python computes.  An output file   *)
(* is the sequence of rows handed to csv.writer.writerow, each tagged with *)
(* the call site that wrote it (header or data).                           *)
(***************************************************************************)
EXTENDS Integers, Sequences, FiniteSets, TLC

VARIABLES
    fields,        \* REQUIRED_FIELDS as configured at start-up
    buffer,        \* main: buffer
    file_count,    \* main: file_count
    line_counter,  \* main: line_counter[0]
    files,         \* apteka_0.csv, apteka_1.csv, ...: files[k+1] is apteka_k.csv
    stderr,        \* the messages printed to sys.stderr, in order
    pc,            \* "loop", "done", "fatal" or "interrupted"
    nread,         \* number of input lines consumed so far
    last,          \* history: what the most recent process_insert call did
    rotations,     \* history: number of new files opened after a True result
    reached,       \* history: number of times line_counter reached the limit
    nflush,        \* history: number of process_insert calls so far
    nstart,        \* history: number of lines read that begin a statement
    written,       \* history: the writer.writerow calls for data rows, in order
    opens,         \* history: fewest and most files open at once before the
                   \* final close
    twin           \* second run of the program, used by SpecJoin only

vars == <<fields, buffer, file_count, line_counter, files, stderr, pc, nread,
          last, rotations, reached, nflush, nstart, written, opens, twin>>

-----------------------------------------------------------------------------
(* Bounds of the model. *)

\* Number of input lines a run reads before the input is exhausted.
MaxLines == 4

\* A write fault hits at most the MaxWriteFail-th writerow call of a statement.
MaxWriteFail == 2

\* LINES_PER_FILE, the rows per file, scaled down from the script's 10000 so
\* that rotations are reachable.
LINES_PER_FILE == 2

-----------------------------------------------------------------------------
(* Python str operations. *)

Whitespace == {" ", "\t"}
Digits == {"0", "1", "2", "3", "4", "5", "6", "7", "8", "9"}

\* s[a-1:b] for 1-based inclusive positions, empty when out of range.
Sub(s, a, b) ==
    LET lo == IF a < 1 THEN 1 ELSE a
        hi == IF b > Len(s) THEN Len(s) ELSE b
    IN  IF lo > hi THEN "" ELSE SubSeq(s, lo, hi)

Char(s, i) == Sub(s, i, i)

\* First position >= i whose character is not in C (Len(s)+1 when none).
RECURSIVE FirstKeep(_, _, _)
FirstKeep(s, i, C) ==
    IF i > Len(s) THEN i
    ELSE IF Char(s, i) \in C THEN FirstKeep(s, i + 1, C) ELSE i

\* Last position <= j whose character is not in C (0 when none).
RECURSIVE LastKeep(_, _, _)
LastKeep(s, j, C) ==
    IF j < 1 THEN j
    ELSE IF Char(s, j) \in C THEN LastKeep(s, j - 1, C) ELSE j

lstrip(s, C) == Sub(s, FirstKeep(s, 1, C), Len(s))
rstrip(s, C) == Sub(s, 1, LastKeep(s, Len(s), C))
strip(s, C) == rstrip(lstrip(s, C), C)

startswith(s, p) == Len(s) >= Len(p) /\ Sub(s, 1, Len(p)) = p
endswith(s, p) == Len(s) >= Len(p) /\ Sub(s, Len(s) - Len(p) + 1, Len(s)) = p

\* str.find: first position >= i where sep occurs, 0 when it does not.
RECURSIVE Find(_, _, _)
Find(s, sep, i) ==
    IF i + Len(sep) - 1 > Len(s) THEN 0
    ELSE IF Sub(s, i, i + Len(sep) - 1) = sep THEN i
    ELSE Find(s, sep, i + 1)

\* The third component of s.partition(sep).
PartitionTail(s, sep) ==
    LET k == Find(s, sep, 1)
    IN  IF k = 0 THEN "" ELSE Sub(s, k + Len(sep), Len(s))

-----------------------------------------------------------------------------
(* Regular expressions of parse_values. *)

\* Match of r"\),\s*\(" starting at i: the position after the match, 0 if none.
MatchBoundary(s, i) ==
    IF Sub(s, i, i + 1) = "),"
    THEN LET j == FirstKeep(s, i + 2, Whitespace)
         IN  IF Char(s, j) = "(" THEN j + 1 ELSE 0
    ELSE 0

\* re.split(r"\),\s*\(", s): b is the start of the current piece, i the scan
\* position.
RECURSIVE SplitFrom(_, _, _)
SplitFrom(s, b, i) ==
    IF i > Len(s) THEN <<Sub(s, b, Len(s))>>
    ELSE LET e == MatchBoundary(s, i)
         IN  IF e > 0 THEN <<Sub(s, b, i - 1)>> \o SplitFrom(s, e, e)
             ELSE SplitFrom(s, b, i + 1)

re_split(s) == SplitFrom(s, 1, 1)

\* The matches of r"(?:'([^']*)'|NULL|\d+)" in s from position i on, leftmost
\* first, alternatives tried in order.  text is the whole match, group is
\* group 1, which takes part in the first alternative only.
RECURSIVE MatchesFrom(_, _)
MatchesFrom(s, i) ==
    IF i > Len(s) THEN <<>>
    ELSE LET c == Char(s, i)
             q == IF c = "'" THEN Find(s, "'", i + 1) ELSE 0
         IN  IF q > 0
             THEN <<[kind |-> "str", text |-> Sub(s, i, q),
                     group |-> Sub(s, i + 1, q - 1)]>> \o MatchesFrom(s, q + 1)
             ELSE IF Sub(s, i, i + 3) = "NULL"
             THEN <<[kind |-> "null", text |-> "NULL", group |-> ""]>>
                      \o MatchesFrom(s, i + 4)
             ELSE IF c \in Digits
             THEN LET e == FirstKeep(s, i, Digits)
                  IN  <<[kind |-> "num", text |-> Sub(s, i, e - 1),
                         group |-> ""]>> \o MatchesFrom(s, e)
             ELSE MatchesFrom(s, i + 1)

Matches(row) == MatchesFrom(row, 1)

\* re.findall with one capture group returns group 1 of every match.
re_findall(row) ==
    LET m == Matches(row) IN [k \in 1..Len(m) |-> m[k].group]

-----------------------------------------------------------------------------
(* Configuration. *)

\* REQUIRED_FIELDS in insertion order: the order of .items() and .keys().
REQUIRED_FIELDS ==
    << [name |-> "LOGIN",              index |-> 2],
       [name |-> "NAME",               index |-> 6],
       [name |-> "LAST_NAME",          index |-> 7],
       [name |-> "EMAIL",              index |-> 8],
       [name |-> "PERSONAL_BIRTHDATE", index |-> 16],
       [name |-> "TIMESTAMP_X",        index |-> 1],
       [name |-> "PERSONAL_PHONE",     index |-> 18],
       [name |-> "PERSONAL_MOBILE",    index |-> 20],
       [name |-> "PERSONAL_MAILBOX",   index |-> 23],
       [name |-> "PERSONAL_CITY",      index |-> 24],
       [name |-> "PERSONAL_STATE",     index |-> 25],
       [name |-> "WORK_CITY",          index |-> 37],
       [name |-> "PASSWORD",           index |-> 3],
       [name |-> "CHECKWORD",          index |-> 4] >>

\* The schema {X:0, Y:2, Z:3} of the specification's worked example.
ExampleFields ==
    << [name |-> "X", index |-> 0],
       [name |-> "Y", index |-> 2],
       [name |-> "Z", index |-> 3] >>

\* The field mappings a run may be configured with.
Schemas == {REQUIRED_FIELDS, ExampleFields}

\* REQUIRED_FIELDS.keys()
FieldNames(flds) == [i \in 1..Len(flds) |-> flds[i].name]

-----------------------------------------------------------------------------
(* is_insert, get_values, parse_values, process_insert. *)

is_insert(line) == startswith(strip(line, Whitespace), "INSERT INTO")

get_values(statement) ==
    rstrip(strip(PartitionTail(statement, " VALUES "), Whitespace), {";"})

\* rows = re.split(r"\),\s*\(", values.strip("()"))
RowGroups(values) == re_split(strip(values, {"(", ")"}))

\* A faulty variant of MapRow: the condition filters the comprehension
\* instead of choosing between the value and the empty string.
MapRow_filter(columns, flds) ==
    LET keep == SelectSeq(flds, LAMBDA f : f.index < Len(columns)
                                        /\ columns[f.index + 1] # "NULL")
    IN  [i \in 1..Len(keep) |-> columns[keep[i].index + 1]]

\* The list comprehension building result_row from columns.
MapRow(columns, flds) ==
    [i \in 1..Len(flds) |->
        IF flds[i].index < Len(columns) /\ columns[flds[i].index + 1] # "NULL"
        THEN columns[flds[i].index + 1]
        ELSE ""]

\* A faulty variant of ReachedLimit: > in place of >=.
ReachedLimit_gt(counter) == counter > LINES_PER_FILE

\* if line_counter[0] >= LINES_PER_FILE
ReachedLimit(counter) == counter >= LINES_PER_FILE

\* The for loop of parse_values from rows[k] on.  wfail = k means that the
\* k-th writer.writerow call of this statement raises OSError; a failed call
\* adds no row.  out lists the rows written, switch is the return value,
\* starts lists the value of the counter at the start of each iteration.
RECURSIVE RowLoop(_, _, _, _, _)
RowLoop(rows, k, counter, wfail, flds) ==
    IF k > Len(rows)
    THEN [out |-> <<>>, counter |-> counter, switch |-> FALSE,
          raised |-> FALSE, hit |-> 0, starts |-> <<>>]
    ELSE IF wfail = k
    THEN [out |-> <<>>, counter |-> counter, switch |-> FALSE,
          raised |-> TRUE, hit |-> 0, starts |-> <<counter>>]
    ELSE LET row == MapRow(re_findall(rows[k]), flds)
         IN  IF ReachedLimit(counter + 1)
             THEN [out |-> <<row>>, counter |-> 0, switch |-> TRUE,
                   raised |-> FALSE, hit |-> 1, starts |-> <<counter>>]
             ELSE LET r == RowLoop(rows, k + 1, counter + 1, wfail, flds)
                  IN  [r EXCEPT !.out = <<row>> \o @,
                                !.starts = <<counter>> \o @]

parse_values(values, counter, wfail, flds) ==
    RowLoop(RowGroups(values), 1, counter, wfail, flds)

DataRow(cells) == [kind |-> "data", cells |-> cells]
HeaderRow(flds) == [kind |-> "header", cells |-> FieldNames(flds)]

\* A faulty variant of WriteRows: the rows of a statement are written last
\* row-group first.
WriteRows_reversed(fs, k, out) ==
    [fs EXCEPT ![k].rows =
        @ \o [j \in 1..Len(out) |-> [kind |-> "data",
                                      cells |-> out[Len(out) + 1 - j]]]]

\* Append the rows to the file open as current_file.
WriteRows(fs, k, out) ==
    [fs EXCEPT ![k].rows = @ \o [j \in 1..Len(out) |-> DataRow(out[j])]]

\* The writer.writerow calls of one parse_values call: the k-th row written
\* comes from the k-th row-group of statement number stmt and goes to the
\* file numbered file.
Calls(out, stmt, file) ==
    [k \in 1..Len(out) |->
        [stmt |-> stmt, group |-> k, file |-> file, cells |-> out[k]]]

StatementError == "Error processing statement"
UnhandledError == "Unhandled exception"

\* A faulty variant of Processed: the counter is passed by value, so the
\* caller's counter never changes.
Processed_stale(st, cause, trigger, r) ==
    [st |-> [st EXCEPT
               !.files = WriteRows(@, st.file_count + 1, r.out),
               !.stderr = IF r.raised THEN Append(@, StatementError) ELSE @,
               !.reached = @ + r.hit,
               !.nflush = @ + 1,
               !.written = @ \o Calls(r.out, st.nflush + 1, st.file_count),
               !.last = [stmt |-> st.buffer, cause |-> cause,
                         trigger |-> trigger,
                         before |-> st.line_counter,
                         after |-> st.line_counter,
                         file |-> st.file_count,
                         out |-> r.out, raised |-> r.raised,
                         messages |-> IF r.raised THEN 1 ELSE 0,
                         starts |-> r.starts,
                         held |-> Len(st.files[st.file_count + 1].rows) - 1]],
     switch |-> r.switch]

\* The effect on the program state st of a parse_values call with outcome r
\* (its rows, the counter, its return value, whether it raised); held is the
\* number of data rows the current file held before the call.  The except
\* clause prints one message and returns False, keeping what the loop did
\* before the raise.
Processed(st, cause, trigger, r) ==
    [st |-> [st EXCEPT
               !.files = WriteRows(@, st.file_count + 1, r.out),
               !.line_counter = r.counter,
               !.stderr = IF r.raised THEN Append(@, StatementError) ELSE @,
               !.reached = @ + r.hit,
               !.nflush = @ + 1,
               !.written = @ \o Calls(r.out, st.nflush + 1, st.file_count),
               !.last = [stmt |-> st.buffer, cause |-> cause,
                         trigger |-> trigger,
                         before |-> st.line_counter,
                         after |-> r.counter,
                         file |-> st.file_count,
                         out |-> r.out, raised |-> r.raised,
                         messages |-> IF r.raised THEN 1 ELSE 0,
                         starts |-> r.starts,
                         held |-> Len(st.files[st.file_count + 1].rows) - 1]],
     switch |-> r.switch]

\* process_insert(buffer, writer, line_counter) applied to the program state
\* st; cause records which call site flushed and trigger the line it read.
process_insert(st, cause, trigger, wfail) ==
    Processed(st, cause, trigger,
              parse_values(get_values(st.buffer), st.line_counter, wfail,
                           st.fields))

-----------------------------------------------------------------------------
(* main. *)

\* open(...), csv.writer(...) and writer.writerow(REQUIRED_FIELDS.keys()): a
\* new file that holds the header row.
OpenFile(flds) == [open |-> TRUE, rows |-> <<HeaderRow(flds)>>]

\* The state before the first line is read: apteka_0.csv is open and holds
\* its header.
InitState(flds) ==
    [fields |-> flds, buffer |-> "", file_count |-> 0, line_counter |-> 0,
     files |-> <<OpenFile(flds)>>,
     stderr |-> <<>>, pc |-> "loop", rotations |-> 0, reached |-> 0,
     nflush |-> 0, nstart |-> 0, written |-> <<>>,
     opens |-> [low |-> 1, high |-> 1],
     last |-> [stmt |-> "", cause |-> "none", trigger |-> "", before |-> 0,
               after |-> 0, file |-> 0, out |-> <<>>, raised |-> FALSE,
               messages |-> 0, starts |-> <<>>, held |-> 0]]

\* A faulty variant of SwitchFile: the next file is opened without a header.
SwitchFile_noheader(st, ofail) ==
    LET closed == [st.files EXCEPT ![st.file_count + 1].open = FALSE]
    IN  IF ofail
        THEN [st EXCEPT !.files = closed,
                        !.file_count = @ + 1,
                        !.stderr = Append(@, UnhandledError),
                        !.pc = "fatal"]
        ELSE [st EXCEPT !.files = Append(closed, [open |-> TRUE, rows |-> <<>>]),
                        !.file_count = @ + 1,
                        !.rotations = @ + 1]

\* The number of files in fs that are open.
OpenCount(fs) == Cardinality({k \in 1..Len(fs) : fs[k].open})

\* The history of open files after one more close or open left fs.
Seen(o, fs) ==
    [low |-> IF OpenCount(fs) < o.low THEN OpenCount(fs) ELSE o.low,
     high |-> IF OpenCount(fs) > o.high THEN OpenCount(fs) ELSE o.high]

\* The file switch once the current file is closed (closed are the files
\* then): count up, open the next file and write its header, unless open
\* raises.
OpenNext(st, closed, ofail) ==
    IF ofail
    THEN [st EXCEPT !.files = closed,
                    !.file_count = @ + 1,
                    !.stderr = Append(@, UnhandledError),
                    !.opens = Seen(@, closed),
                    !.pc = "fatal"]
    ELSE [st EXCEPT !.files = Append(closed, OpenFile(st.fields)),
                    !.file_count = @ + 1,
                    !.rotations = @ + 1,
                    !.opens = Seen(Seen(@, closed),
                                   Append(closed, OpenFile(st.fields)))]

\* A faulty variant of SwitchFile: the current file is not closed.
SwitchFile_noclose(st, ofail) == OpenNext(st, st.files, ofail)

\* The body of "if process_insert(...):": close the current file, count up,
\* open the next file and write its header.  ofail means that open raises
\* OSError, which leaves main through "except Exception" with exit status 1.
SwitchFile(st, ofail) ==
    OpenNext(st, [st.files EXCEPT ![st.file_count + 1].open = FALSE], ofail)

\* "if process_insert(...):" with the file switch as its body; r is the
\* outcome of the call.
SwitchIfAsked(r, ofail) == IF r.switch THEN SwitchFile(r.st, ofail) ELSE r.st

\* process_insert on the buffer followed by the file switch it asks for.
Flush(st, cause, trigger, wfail, ofail) ==
    SwitchIfAsked(process_insert(st, cause, trigger, wfail), ofail)

\* A faulty variant of ThenBuffer: the buffer keeps the flushed statement.
ThenBuffer_keep(st, text) == st

\* The assignment to buffer that follows a flush in the loop; an exception
\* raised in the file switch leaves the loop before it.
ThenBuffer(st, text) ==
    IF st.pc = "fatal" THEN st ELSE [st EXCEPT !.buffer = text]

\* A faulty variant of EndsStatement: every appended line ends the statement.
EndsStatement_always(line) == TRUE

\* if line.endswith(";")
EndsStatement(line) == endswith(line, ";")

\* A faulty variant of LoopStep: a line that does not begin a statement is
\* appended to the buffer also when the buffer is empty.
LoopStep_noguard(st, line, wfail, ofail) ==
    IF is_insert(line)
    THEN IF st.buffer # ""
         THEN ThenBuffer(Flush([st EXCEPT !.nstart = @ + 1],
                               "insert", line, wfail, ofail), line)
         ELSE [st EXCEPT !.buffer = line, !.nstart = @ + 1]
    ELSE IF EndsStatement(line)
    THEN ThenBuffer(Flush([st EXCEPT !.buffer = @ \o " " \o line],
                          "terminator", line, wfail, ofail), "")
    ELSE [st EXCEPT !.buffer = @ \o " " \o line]

\* The loop body for the stripped line; nstart counts the lines that begin
\* with INSERT INTO.
LoopStep(st, line, wfail, ofail) ==
    IF is_insert(line)
    THEN IF st.buffer # ""
         THEN ThenBuffer(Flush([st EXCEPT !.nstart = @ + 1],
                               "insert", line, wfail, ofail), line)
         ELSE [st EXCEPT !.buffer = line, !.nstart = @ + 1]
    ELSE IF st.buffer # ""
    THEN IF EndsStatement(line)
         THEN ThenBuffer(Flush([st EXCEPT !.buffer = @ \o " " \o line],
                               "terminator", line, wfail, ofail), "")
         ELSE [st EXCEPT !.buffer = @ \o " " \o line]
    ELSE st

\* One iteration of "for line in fileinput.input()".
LoopBody(st, raw, wfail, ofail) ==
    LoopStep(st, strip(raw, Whitespace), wfail, ofail)

\* current_file.close() at the end of main.
CloseCurrent(st) ==
    [st EXCEPT !.files[st.file_count + 1].open = FALSE, !.pc = "done"]

\* A faulty variant of Finish: the buffer is not processed at end of input.
Finish_noflush(st, wfail) == CloseCurrent(st)

\* After the loop: the last buffer is processed, its return value is not
\* used, and the current file is closed.
Finish(st, wfail) ==
    CloseCurrent(IF st.buffer # ""
                 THEN process_insert(st, "eof", "", wfail).st
                 ELSE st)

\* except KeyboardInterrupt: sys.exit(0)
Interrupted(st) == [st EXCEPT !.pc = "interrupted"]

\* The exit status of the process, -1 while it runs.
ExitStatus(st) ==
    CASE st.pc = "loop" -> -1
      [] st.pc = "fatal" -> 1
      [] OTHER -> 0

-----------------------------------------------------------------------------
(* Input. *)

\* The physical lines an input may consist of.
Lines ==
    { "INSERT INTO t VALUES (1,'a','b',NULL,'c');",
      "INSERT INTO t VALUES",
      "  ('p',2),",
      "('q',NULL,'r'), ('s');",
      "INSERT INTO t;",
      "INSERT INTO t VALUES ((7,'NULL'",
      "" }

\* The I/O faults that may hit one step: the write-th writer.writerow call of
\* the statement raises, or the open of the next file raises.  A statement
\* whose write raises asks for no file switch, so the two never combine.
Faults ==
    {[write |-> w, open |-> FALSE] : w \in 0..MaxWriteFail}
        \cup {[write |-> 0, open |-> TRUE]}

-----------------------------------------------------------------------------
(* The run as a state machine. *)

Cur ==
    [fields |-> fields, buffer |-> buffer, file_count |-> file_count,
     line_counter |-> line_counter, files |-> files, stderr |-> stderr,
     pc |-> pc, rotations |-> rotations, reached |-> reached,
     nflush |-> nflush, nstart |-> nstart, written |-> written,
     opens |-> opens, last |-> last]

Assign(st) ==
    /\ fields' = st.fields
    /\ buffer' = st.buffer
    /\ file_count' = st.file_count
    /\ line_counter' = st.line_counter
    /\ files' = st.files
    /\ stderr' = st.stderr
    /\ pc' = st.pc
    /\ rotations' = st.rotations
    /\ reached' = st.reached
    /\ nflush' = st.nflush
    /\ nstart' = st.nstart
    /\ written' = st.written
    /\ opens' = st.opens
    /\ last' = st.last

Init ==
    /\ \E flds \in Schemas :
          LET st == InitState(flds)
          IN  /\ fields = st.fields
              /\ buffer = st.buffer
              /\ file_count = st.file_count
              /\ line_counter = st.line_counter
              /\ files = st.files
              /\ stderr = st.stderr
              /\ pc = st.pc
              /\ rotations = st.rotations
              /\ reached = st.reached
              /\ nflush = st.nflush
              /\ nstart = st.nstart
              /\ written = st.written
              /\ opens = st.opens
              /\ last = st.last
    /\ nread = 0
    /\ twin = <<>>

\* The loop reads the next line of the input.
ReadLine ==
    /\ pc = "loop"
    /\ nread < MaxLines
    /\ \E raw \in Lines, fault \in Faults :
          Assign(LoopBody(Cur, raw, fault.write, fault.open))
    /\ nread' = nread + 1
    /\ UNCHANGED twin

\* The input is exhausted: final flush and close.
EndOfInput ==
    /\ pc = "loop"
    /\ \E wfail \in 0..MaxWriteFail : Assign(Finish(Cur, wfail))
    /\ UNCHANGED <<nread, twin>>

\* The user interrupts the run.
KeyboardInterrupt ==
    /\ pc = "loop"
    /\ Assign(Interrupted(Cur))
    /\ UNCHANGED <<nread, twin>>

Next == ReadLine \/ EndOfInput \/ KeyboardInterrupt

Spec == Init /\ [][Next]_vars

\* The steps of Next as pc and nread show them: a step reads a line or leaves
\* the loop, and every step of Next does one of the two.
Runs ==
    /\ pc = "loop"
    /\ pc' \in {"loop", "done", "fatal", "interrupted"}
    /\ nread' \in {nread, nread + 1}

\* The interpreter keeps running the program: while main has not returned or
\* exited, it takes its next step.
SpecLive == Init /\ [][Next]_vars /\ WF_<<pc, nread>>(Runs)

-----------------------------------------------------------------------------
(* Two runs side by side: the variables read a statement split over several *)
(* physical lines, twin reads the same statement on one physical line; all  *)
(* other lines are read by both.  No I/O fault occurs in either run.        *)

\* Statements split over physical lines, the terminator on the last line only.
SplitStatements ==
    { <<"INSERT INTO t VALUES", "('p',2),", "('s');">>,
      <<"INSERT INTO t VALUES", "('q',NULL,'r');">> }

\* The lines both runs read unchanged.
CommonLines == Lines \cup {"),('z');", "-- 5;"}

\* The statement of parts on one physical line.
RECURSIVE OneLine(_)
OneLine(parts) ==
    IF Len(parts) = 1 THEN parts[1]
    ELSE parts[1] \o " " \o OneLine(Tail(parts))

\* The loop body applied to each line of a sequence in turn.
RECURSIVE ReadAll(_, _)
ReadAll(st, lines) ==
    IF lines = <<>> THEN st
    ELSE ReadAll(LoopBody(st, Head(lines), 0, FALSE), Tail(lines))

JoinInit ==
    /\ \E flds \in Schemas :
          LET st == InitState(flds)
          IN  /\ fields = st.fields
              /\ buffer = st.buffer
              /\ file_count = st.file_count
              /\ line_counter = st.line_counter
              /\ files = st.files
              /\ stderr = st.stderr
              /\ pc = st.pc
              /\ rotations = st.rotations
              /\ reached = st.reached
              /\ nflush = st.nflush
              /\ nstart = st.nstart
              /\ written = st.written
              /\ opens = st.opens
              /\ last = st.last
              /\ twin = st
    /\ nread = 0

\* Both runs read the same line.
JoinReadLine ==
    /\ pc = "loop"
    /\ nread < MaxLines
    /\ \E raw \in CommonLines :
          /\ Assign(LoopBody(Cur, raw, 0, FALSE))
          /\ twin' = LoopBody(twin, raw, 0, FALSE)
    /\ nread' = nread + 1

\* One run reads a statement line by line, the other reads it as one line.
JoinReadStatement ==
    /\ pc = "loop"
    /\ nread < MaxLines
    /\ \E parts \in SplitStatements :
          /\ Assign(ReadAll(Cur, parts))
          /\ twin' = LoopBody(twin, OneLine(parts), 0, FALSE)
    /\ nread' = nread + 1

\* The input of both runs is exhausted.
JoinEndOfInput ==
    /\ pc = "loop"
    /\ Assign(Finish(Cur, 0))
    /\ twin' = Finish(twin, 0)
    /\ UNCHANGED nread

JoinNext == JoinReadLine \/ JoinReadStatement \/ JoinEndOfInput

SpecJoin == JoinInit /\ [][JoinNext]_vars

-----------------------------------------------------------------------------
(* Properties of the run. *)

\* The row-groups of the statement the last process_insert call was given,
\* and the matches found in the k-th of them.
LastGroups == RowGroups(get_values(last.stmt))
LastTokens(k) == Matches(LastGroups[k])

\* The number of data rows of a file.
DataRowCount(f) == Cardinality({j \in 1..Len(f.rows) : f.rows[j].kind = "data"})

\* C1: a flushed statement whose extraction raises no error and that has N
\* row-groups writes exactly N rows, whatever the row counter was at its
\* start, also when the counter reaches the limit between two of its
\* row-groups.
C1_AllRowGroupsWritten ==
    (nflush > 0 /\ ~last.raised) => Len(last.out) = Len(LastGroups)

\* C2: unless the run died of a fatal fault, the number of rotations equals
\* the number of times the row counter reached the limit, whichever flush
\* path wrote the row that reached it.
C2_RotationPerThreshold ==
    pc # "fatal" => rotations = reached

\* The text a match stands for: the contents of a quoted string, the digits
\* of a numeric literal.
TokenText(m) == IF m.kind = "str" THEN m.group ELSE m.text

\* The row holds the text of every token that a configured field selects and
\* that is not the null marker.
TextExtracted(row, tok) ==
    \A i \in 1..Len(fields) :
        (fields[i].index < Len(tok) /\ tok[fields[i].index + 1].kind # "null")
            => row[i] = TokenText(tok[fields[i].index + 1])

\* The statement of the worked example.
ExampleStatement == "INSERT INTO t VALUES (1,'a','b',NULL,'c');"

\* C3: for every row written and every configured field whose index is
\* within the row-group's token list and whose token is not the null marker,
\* the output value is the token's text (string contents, or the digits of a
\* number); the example statement under the example schema yields the row
\* ["1","b",""].
C3_TokenTextExtracted ==
    /\ \A k \in 1..Len(last.out) : TextExtracted(last.out[k], LastTokens(k))
    /\ (nflush > 0 /\ last.stmt = ExampleStatement /\ fields = ExampleFields
            /\ ~last.raised)
          => last.out = << <<"1", "b", "">> >>

\* Nesting depth of parentheses after each prefix of s, -1 once a closing
\* parenthesis has no partner.
RECURSIVE Depth(_, _, _)
Depth(s, i, d) ==
    IF d < 0 \/ i > Len(s) THEN d
    ELSE Depth(s, i + 1, CASE Char(s, i) = "(" -> d + 1
                           [] Char(s, i) = ")" -> d - 1
                           [] OTHER -> d)

\* A statement with no value list at all, or with unbalanced parentheses in
\* its value text.
Malformed(stmt) ==
    \/ Find(stmt, " VALUES ", 1) = 0
    \/ Depth(get_values(stmt), 1, 0) # 0

\* C4: a flushed statement that has no value list or unbalanced parentheses
\* writes no row, reports exactly one diagnostic and leaves the row counter
\* unchanged.
C4_MalformedWritesNothing ==
    (nflush > 0 /\ Malformed(last.stmt))
        => /\ Len(last.out) = 0
           /\ last.messages = 1
           /\ last.after = last.before

\* C5: no output file holds more than LINES_PER_FILE data rows, and only the
\* last file may hold fewer.
C5_FileRowLimit ==
    \A k \in 1..Len(files) :
        /\ DataRowCount(files[k]) <= LINES_PER_FILE
        /\ k < Len(files) => DataRowCount(files[k]) = LINES_PER_FILE

\* Witness of C5: a file was filled and rotated away and its successor has
\* received a data row.
C5_Witness ==
    /\ Len(files) >= 2
    /\ DataRowCount(files[1]) = LINES_PER_FILE
    /\ DataRowCount(files[Len(files)]) >= 1

\* C6: every output file ever opened starts with the configured field names
\* in schema order, and that header row was written to it exactly once.
C6_HeaderFirstOnce ==
    \A k \in 1..Len(files) :
        /\ Len(files[k].rows) >= 1
        /\ files[k].rows[1] = [kind |-> "header", cells |-> FieldNames(fields)]
        /\ \A j \in 2..Len(files[k].rows) : files[k].rows[j].kind = "data"

\* Witness of C6: a file opened by a rotation holds its header and a data row
\* after it.
C6_Witness ==
    /\ Len(files) >= 2
    /\ Len(files[2].rows) >= 2
    /\ files[2].rows[1].kind = "header"

\* The row has one value per configured field, empty where the field's index
\* is beyond the tokens or its token is the null marker, the contents of the
\* string where its token is a quoted string.
Shaped(row, tok) ==
    /\ Len(row) = Len(fields)
    /\ \A i \in 1..Len(fields) :
          /\ (fields[i].index >= Len(tok)
                  \/ tok[fields[i].index + 1].kind = "null")
                => row[i] = ""
          /\ (fields[i].index < Len(tok)
                  /\ tok[fields[i].index + 1].kind = "str"
                  /\ tok[fields[i].index + 1].group # "NULL")
                => row[i] = tok[fields[i].index + 1].group

\* C7: every row written has one value per configured field, in schema
\* order: the empty string where the field's index is beyond the tokens of
\* the row-group or its token is the null marker, the string's contents
\* where its token is a quoted string (other than 'NULL').
C7_RowShape ==
    /\ \A f \in 1..Len(files) : \A j \in 1..Len(files[f].rows) :
          Len(files[f].rows[j].cells) = Len(fields)
    /\ \A k \in 1..Len(last.out) : Shaped(last.out[k], LastTokens(k))

\* The row has a field beyond the tokens, a field on a null marker and a
\* field on a string.
AllCases(row, tok) ==
    /\ \E i \in 1..Len(fields) : fields[i].index >= Len(tok)
    /\ \E i \in 1..Len(fields) :
          /\ fields[i].index < Len(tok)
          /\ tok[fields[i].index + 1].kind = "null"
    /\ \E i \in 1..Len(fields) :
          /\ fields[i].index < Len(tok)
          /\ tok[fields[i].index + 1].kind = "str"
          /\ row[i] # ""

\* Witness of C7: a written row with a field beyond the tokens, a field on a
\* null marker and a field on a string.
C7_Witness ==
    \E k \in 1..Len(last.out) : AllCases(last.out[k], LastTokens(k))

\* C8: a statement whose processing raises leaves no row in any file and
\* leaves the row counter and the file sequence as they were, and one error
\* is reported.
C8_AllOrNothing ==
    (nflush > 0 /\ last.raised)
        => /\ Len(last.out) = 0
           /\ last.after = last.before
           /\ (pc # "fatal" => file_count = last.file)
           /\ last.messages = 1

\* C9 as stated: a statement is handed to extraction only when its text ends
\* with ';' or the input is exhausted.
C9_OnlyTerminatedOrExhausted ==
    nflush > 0 => (endswith(last.stmt, ";") \/ last.cause = "eof")

\* C9 as amended: a statement is handed to extraction only when the line
\* just appended to it ends with ';' (so the statement does), when the next
\* INSERT INTO line is read, or when the input is exhausted.
C9_FlushCauses ==
    nflush > 0 =>
        \/ /\ last.cause = "terminator"
           /\ ~is_insert(last.trigger)
           /\ endswith(last.trigger, ";")
           /\ endswith(last.stmt, ";")
        \/ /\ last.cause = "insert"
           /\ is_insert(last.trigger)
        \/ /\ last.cause = "eof"
           /\ pc = "done"

\* Witness of C9: an INSERT INTO line flushed a statement that does not end
\* with ';'.
C9_Witness ==
    /\ nflush > 0
    /\ last.cause = "insert"
    /\ ~endswith(last.stmt, ";")
    /\ Len(last.out) > 0

\* The data rows of all files in file-sequence order.
RECURSIVE AllDataRows(_)
AllDataRows(fs) ==
    IF fs = <<>> THEN <<>>
    ELSE SelectSeq(Head(fs).rows, LAMBDA r : r.kind = "data")
             \o AllDataRows(Tail(fs))

\* C10: a statement split over several physical lines yields the same output
\* rows, the same row counter and the same rotations as the same statement
\* on one physical line, whatever lines surround it.  Counter and rotations
\* are compared in the runs where every reach of the limit was followed by a
\* rotation, so that a difference is one of statement assembly alone.
C10_SplitEqualsJoined ==
    pc = "done" =>
        /\ AllDataRows(files) = AllDataRows(twin.files)
        /\ (rotations = reached /\ twin.rotations = twin.reached)
              => /\ line_counter = twin.line_counter
                 /\ rotations = twin.rotations
                 /\ files = twin.files

\* C11: at the start of processing every row-group the row counter is at
\* least 0 and below LINES_PER_FILE and equals the number of data rows
\* written so far to the currently open file; so it is whenever the loop is
\* about to read a line.
C11_CounterTracksFile ==
    /\ pc = "loop" =>
          /\ 0 <= line_counter /\ line_counter < LINES_PER_FILE
          /\ line_counter = DataRowCount(files[file_count + 1])
    /\ \A j \in 1..Len(last.starts) :
          /\ 0 <= last.starts[j] /\ last.starts[j] < LINES_PER_FILE
          /\ last.starts[j] = last.held + (j - 1)

\* Witness of C11: after a rotation, a statement has started its second
\* row-group with one row in the current file.
C11_Witness ==
    /\ nflush > 0
    /\ last.file >= 1
    /\ Len(last.starts) >= 2
    /\ last.starts[2] = 1

\* The cells of the data rows of a file.
FileCells(f) ==
    LET data == SelectSeq(f.rows, LAMBDA r : r.kind = "data")
    IN  [j \in 1..Len(data) |-> data[j].cells]

\* The cells of the writerow calls made while file number k was current.
CellsSentTo(k) ==
    LET calls == SelectSeq(written, LAMBDA c : c.file = k)
    IN  [j \in 1..Len(calls) |-> calls[j].cells]

\* Every row is in the file that was current when it was written.
RowsInCurrentFile ==
    /\ \A j \in 1..Len(written) : written[j].file < Len(files)
    /\ \A k \in 1..Len(files) : FileCells(files[k]) = CellsSentTo(k - 1)

\* C12 as stated: from the opening of file 0 until the final close exactly
\* one output file is open in every state, never two and never none, also
\* during a rotation, and every row is written to the current file.
C12_ExactlyOneOpen ==
    /\ opens.low = 1
    /\ opens.high = 1
    /\ pc # "done" => OpenCount(files) = 1
    /\ RowsInCurrentFile

\* C12 as amended: never two files are open at once; whenever the loop is
\* about to read a line exactly one file is open, the current one; before
\* the final close no file is open only inside a rotation, between the close
\* of the current file and the open of the next, and after that open failed;
\* and every row is written to the current file.
C12_AtMostOneOpen ==
    /\ opens.high = 1
    /\ pc \in {"loop", "interrupted"} =>
          /\ OpenCount(files) = 1
          /\ files[file_count + 1].open
    /\ opens.low = 0 <=> (rotations > 0 \/ pc = "fatal")
    /\ pc = "fatal" => OpenCount(files) = 0
    /\ RowsInCurrentFile

\* Witness of C12: after a rotation the loop goes on with one open file, and
\* both files hold rows.
C12_Witness ==
    /\ pc = "loop"
    /\ rotations = 1
    /\ opens.low = 0
    /\ FileCells(files[1]) # <<>>
    /\ FileCells(files[2]) # <<>>

\* C13: every I/O failure while opening or writing an output file, a failed
\* write of a data row included, is fatal: the run ends with exit status 1
\* and the failure is never reported as a statement error after which the
\* loop goes on.
C13_IOFailureFatal ==
    /\ (nflush > 0 /\ last.raised) => (pc = "fatal" /\ ExitStatus(Cur) = 1)
    /\ \A k \in 1..Len(stderr) : stderr[k] # StatementError

\* C14: a run on a finite input that meets no fatal fault and no interrupt
\* eventually reaches DONE; at DONE the buffer has been flushed (it is empty
\* or it is the statement the end-of-input flush processed), every output
\* file is closed and the exit status is 0; an interrupted run has exit
\* status 0 as well.
C14_ReachesDone ==
    /\ [](pc \notin {"fatal", "interrupted"}) => <>(pc = "done")
    /\ [](pc = "done" =>
             /\ buffer # "" => (last.cause = "eof" /\ last.stmt = buffer)
             /\ OpenCount(files) = 0
             /\ ExitStatus(Cur) = 0)
    /\ [](pc = "interrupted" => ExitStatus(Cur) = 0)

\* Witness of C14: a finished run whose last statement was flushed at end of
\* input after a rotation.
C14_Witness ==
    /\ pc = "done"
    /\ buffer # ""
    /\ last.cause = "eof"
    /\ rotations > 0

\* C15: every line that begins with INSERT INTO starts a statement that is
\* flushed exactly once before DONE: while the loop runs, the statements
\* started are those flushed plus the one in the buffer, at DONE all of them
\* have been flushed, and the buffer is empty right after every flush
\* triggered by a terminator.
C15_FlushedExactlyOnce ==
    /\ [](pc = "loop" =>
             nstart = nflush + (IF buffer # "" THEN 1 ELSE 0))
    /\ [](pc = "done" => nstart = nflush)
    /\ [][(nflush' = nflush + 1 /\ last'.cause = "terminator" /\ pc' = "loop")
             => buffer' = ""]_vars

\* Witness of C15: a finished run that started three statements, the last
\* one flushed at end of input.
C15_Witness ==
    /\ pc = "done"
    /\ nstart = 3
    /\ nflush = 3
    /\ last.cause = "eof"

\* The writerow call c comes before the call d in input order: an earlier
\* statement, or an earlier row-group of the same statement.
InputBefore(c, d) ==
    \/ c.stmt < d.stmt
    \/ c.stmt = d.stmt /\ c.group < d.group

\* C16: the data rows of files 0, 1, 2, ... one after the other are the rows
\* written, in the order of their row-groups in the input (statement order,
\* then row-group order); no row-group is written twice, no row is in a file
\* with a lower number than an earlier row's file, and the rows of the
\* statement flushed last are those of its row-groups.
C16_OrderPreserved ==
    /\ LET data == AllDataRows(files)
       IN  /\ Len(data) = Len(written)
           /\ \A j \in 1..Len(written) : data[j].cells = written[j].cells
    /\ \A i, j \in 1..Len(written) :
          i < j => /\ InputBefore(written[i], written[j])
                   /\ written[i].file <= written[j].file
    /\ \A j \in 1..Len(written) :
          written[j].stmt = nflush =>
              written[j].cells = MapRow(re_findall(LastGroups[written[j].group]),
                                        fields)

\* Witness of C16: rows of two statements in two files, the later statement
\* with two rows.
C16_Witness ==
    /\ Len(written) >= 3
    /\ written[1].stmt = 1
    /\ written[Len(written)].stmt = 2
    /\ written[Len(written)].group = 2
    /\ written[1].file = 0
    /\ written[Len(written)].file = 1
    /\ written[Len(written)].cells # written[Len(written) - 1].cells

\* C17: a line that does not begin with INSERT INTO and is read while the
\* buffer is empty changes nothing: the loop body returns the state it was
\* given, whatever faults the I/O has in store, and a step that reads such a
\* line leaves buffer, counter, file sequence, files and messages as they
\* were.
C17_IdleLineChangesNothing ==
    /\ [](pc = "loop" /\ buffer = "" =>
             \A raw \in CommonLines, fault \in Faults :
                 ~is_insert(strip(raw, Whitespace)) =>
                     LoopBody(Cur, raw, fault.write, fault.open) = Cur)
    /\ [][(pc = "loop" /\ buffer = "" /\ nread' = nread + 1
                /\ nstart' = nstart)
             => UNCHANGED <<fields, buffer, file_count, line_counter, files,
                            stderr, pc, last, rotations, reached, nflush,
                            written, opens>>]_vars

\* Witness of C17: two lines have been read before the first INSERT INTO
\* line, and the state is as it was at the start.
C17_Witness ==
    /\ pc = "loop"
    /\ nread = 2
    /\ nstart = 0
    /\ Cur = InitState(fields)

\* C18: only non-empty lines are appended to the buffer: a step that reads
\* a line and lengthens the statement in the buffer, without starting or
\* flushing one, adds one space and the text of a line that is not empty
\* after trimming; a line that is empty after trimming adds nothing.
C18_OnlyNonEmptyAppended ==
    [][(/\ pc = "loop"
        /\ nread' = nread + 1
        /\ nstart' = nstart
        /\ nflush' = nflush
        /\ buffer' # buffer)
          => \E raw \in Lines :
                /\ strip(raw, Whitespace) # ""
                /\ buffer' = buffer \o " " \o strip(raw, Whitespace)]_vars

====
